---- MODULE Spec2Model ----
(***************************************************************************)
(* Event-management REST service (Eric-Eklund/REST_API): users sign up and *)
(* log in, authenticated callers create, update and delete events and      *)
(* register for them.  The model covers the token service (auth/jwt.go),   *)
(* the Authenticate middleware, the route handlers and the model layer     *)
(* over the relational store.                                              *)
(*                                                                         *)
(* Time is counted in whole hours since the epoch.  An int64 is written    *)
(* [hi, lo] and stands for hi * 2^53 + lo, so that ids on both sides of    *)
(* the float64 precision limit can be written down.                        *)
(***************************************************************************)
EXTENDS Integers, Sequences, FiniteSets, TLC

\* ------------------------------------------------------------------ bounds
\* Event ids the AUTOINCREMENT sequence of the events table may hand out.
MaxEvents == 1
\* Latest clock reading (hours) of the token life-cycle specification.
MaxTime == 38
\* Largest low part of an int64 given to the token service.
MaxLo == 3
\* Requests the server handles at the same time.
MaxRequests == 2
\* Events saved before the events table is listed.
MaxListed == 2

\* --------------------------------------------------------------- int64 ids
I64(n) == [hi |-> 0, lo |-> n]

\* The int64 values given to the token service: small ids, and ids just
\* above 2^53.
Int64Values == { [hi |-> h, lo |-> l] : h \in {0, 1}, l \in 0..MaxLo }

\* encoding/json decodes a JSON number into an interface{} as a float64
\* (strconv.ParseFloat, round to nearest, ties to even).  Below 2^53 every
\* integer is a float64; in [2^53, 2^54) only the even ones are.
Float64Of(n) ==
    IF n.hi = 0 \/ n.lo % 2 = 0 THEN n
    ELSE IF (n.lo - 1) % 4 = 0 THEN [hi |-> n.hi, lo |-> n.lo - 1]
         ELSE [hi |-> n.hi, lo |-> n.lo + 1]

\* int64(f) of a float64 holding an integer in range is that integer.
Int64OfFloat(f) == f

\* ----------------------------------------------------------- token service
secretKey == "superSecretKey"

\* hours of validity: time.Hour * 12
TokenTTL == 12

Emails == {"a@x.com", "b@x.com"}

HMACAlgs == {"HS256", "HS384", "HS512"}
\* Signing methods the jwt package registers.
KnownAlgs == HMACAlgs \cup {"RS256", "ES256", "PS256", "EdDSA", "none"}

\* The empty Authorization header.
EmptyString ==
    [alg |-> "", key |-> "", email |-> "", idType |-> "absent",
     idNum |-> I64(0), hasExp |-> FALSE, exp |-> 0]

\* A signed token: the algorithm of its header, the key its signature was
\* made with, and its claims.  idType is the JSON type of the id claim.
Token(alg, key, email, idType, idNum, hasExp, exp) ==
    [alg |-> alg, key |-> key, email |-> email, idType |-> idType,
     idNum |-> idNum, hasExp |-> hasExp, exp |-> exp]

\* A token service that issues tokens for a day.
GenerateToken_Day(email, userId, t) ==
    Token("HS256", secretKey, email, "number", userId, TRUE, t + 2 * TokenTTL)

GenerateToken(email, userId, t) ==
    Token("HS256", secretKey, email, "number", userId, TRUE, t + TokenTTL)

\* The key function handed to jwt.Parse.
Keyfunc(token) ==
    IF token.alg \in HMACAlgs
    THEN [err |-> FALSE, key |-> secretKey]
    ELSE [err |-> TRUE, key |-> ""]

\* SigningMethod.Verify: an HMAC signature verifies under the key it was
\* made with; the other methods refuse a []byte key.
VerifySignature(token, key) ==
    /\ token.alg \in HMACAlgs
    /\ token.key = key

\* The registered-claims validation of jwt.Parse: exp, when present, must be
\* after now.
ClaimsValid(token, now_) == token.hasExp => now_ < token.exp

\* jwt.Parse: segments, signing method, key function, signature, claims.
JwtParse(token, now_) ==
    IF token.alg \notin KnownAlgs THEN [err |-> TRUE]
    ELSE LET k == Keyfunc(token)
         IN  IF k.err THEN [err |-> TRUE]
             ELSE IF ~VerifySignature(token, k.key) THEN [err |-> TRUE]
             ELSE IF ~ClaimsValid(token, now_) THEN [err |-> TRUE]
             ELSE [err |-> FALSE]

InvalidToken == [kind |-> "error", err |-> "invalid token", userId |-> I64(0)]
Panic == [kind |-> "panic", err |-> "interface conversion", userId |-> I64(0)]
Valid(userId) == [kind |-> "ok", err |-> "", userId |-> userId]

\* A parser that skips verification (jwt.ParseUnverified).
ValidateToken_Unverified(token, now_) ==
    IF token.idType # "number" THEN Panic
    ELSE Valid(Int64OfFloat(Float64Of(token.idNum)))

ValidateToken(token, now_) ==
    IF JwtParse(token, now_).err THEN InvalidToken
    ELSE IF token.idType # "number" THEN Panic
    ELSE Valid(Int64OfFloat(Float64Of(token.idNum)))

\* ------------------------------------------------------------------- state
VARIABLES
    users,          \* rows of the users table: [ID, Email, Password]
    userSeq,        \* AUTOINCREMENT sequence of the users table
    events,         \* rows of the events table
    eventSeq,       \* AUTOINCREMENT sequence of the events table
    registrations,  \* the registrations table: for each [EventID, UserID] it
                    \* holds, the number of its rows with that pair
    now,            \* the clock, in hours
    req,            \* the request handled last: its route and Authorization header
    h,              \* what the route handler of that request did and read
    resp,           \* the response to that request
    issued,         \* token life cycle: the token under validation
    validated,      \* token life cycle: the outcome of its last validation
    inflight,       \* the handlers running at the same time: for each, the
                    \* statement it is at and its local variables
    call            \* the method of the models package called last: its
                    \* receiver after the call, its argument and its error

store == <<users, userSeq, events, eventSeq, registrations>>
http == <<req, h, resp>>
life == <<issued, validated>>
vars == <<users, userSeq, events, eventSeq, registrations, now, req, h, resp,
          issued, validated, inflight, call>>

Passwords == {"p1", "p2"}
Names == {"", "n1", "n2"}
Descriptions == {"d"}
Locations == {"l"}
DateTimes == {"t"}

\* User ids a client may name in a token or in a body: no user, and the ids
\* the users table can hand out.
UserIdInputs == { I64(n) : n \in 0..Cardinality(Emails) }

\* ------------------------------------------------------------ user model
\* crypto.HashPassword: the hashed form of a password; it refuses the empty
\* password.
HashPassword(password) ==
    IF password = "" THEN [err |-> TRUE, hash |-> [bcrypt |-> ""]]
    ELSE [err |-> FALSE, hash |-> [bcrypt |-> password]]

\* crypto.CheckPasswordHash
CheckPasswordHash(password, hash) == hash = [bcrypt |-> password]

\* An INSERT that does not look at the UNIQUE index on email.
InsertUser_NoUnique(us, seq, email, hashed) ==
    [err |-> FALSE, seq |-> seq + 1,
     users |-> us \cup {[ID |-> I64(seq + 1), Email |-> email, Password |-> hashed]}]

\* INSERT INTO users (email, password): email is UNIQUE, id is AUTOINCREMENT.
InsertUser(us, seq, email, hashed) ==
    IF \E u \in us : u.Email = email
    THEN [err |-> TRUE, seq |-> seq, users |-> us]
    ELSE [err |-> FALSE, seq |-> seq + 1,
          users |-> us \cup {[ID |-> I64(seq + 1), Email |-> email, Password |-> hashed]}]

\* A Save that goes on to the INSERT whatever the hasher returned.
UserSave_IgnoreHashError(u, us, seq) ==
    LET hp == HashPassword(u.Password)
        ins == InsertUser(us, seq, u.Email, hp.hash)
    IN  IF ins.err
        THEN [err |-> TRUE, user |-> u, users |-> us, seq |-> seq]
        ELSE [err |-> FALSE, user |-> [u EXCEPT !.ID = I64(ins.seq)],
              users |-> ins.users, seq |-> ins.seq]

\* User.Save on the user u = [ID, Email, Password]: the user after the call,
\* the error, and the table after the call.
UserSave(u, us, seq) ==
    LET hp == HashPassword(u.Password)
    IN  IF hp.err THEN [err |-> TRUE, user |-> u, users |-> us, seq |-> seq]
        ELSE LET ins == InsertUser(us, seq, u.Email, hp.hash)
             IN  IF ins.err
                 THEN [err |-> TRUE, user |-> u, users |-> us, seq |-> seq]
                 ELSE [err |-> FALSE, user |-> [u EXCEPT !.ID = I64(ins.seq)],
                       users |-> ins.users, seq |-> ins.seq]

\* A ValidateCredentials that reports which of the two checks failed.
UserValidateCredentials_TellsWhy(u, us) ==
    IF ~\E r \in us : r.Email = u.Email
    THEN [err |-> "user not found", user |-> u]
    ELSE LET row == CHOOSE r \in us : r.Email = u.Email
         IN  IF ~CheckPasswordHash(u.Password, row.Password)
             THEN [err |-> "invalid credentials", user |-> u]
             ELSE [err |-> "", user |-> u]

\* A ValidateCredentials that does not compare the password.
UserValidateCredentials_AnyPassword(u, us) ==
    IF ~\E r \in us : r.Email = u.Email
    THEN [err |-> "invalid credentials", user |-> u]
    ELSE [err |-> "", user |-> u]

\* User.ValidateCredentials: selects the password of the row with u's email.
\* It leaves u.ID as it was.
UserValidateCredentials(u, us) ==
    IF ~\E r \in us : r.Email = u.Email
    THEN [err |-> "invalid credentials", user |-> u]
    ELSE LET row == CHOOSE r \in us : r.Email = u.Email
         IN  IF ~CheckPasswordHash(u.Password, row.Password)
             THEN [err |-> "invalid credentials", user |-> u]
             ELSE [err |-> "", user |-> u]

\* ----------------------------------------------------------- event model
ZeroEvent ==
    [ID |-> 0, Name |-> "", Description |-> "", Location |-> "", DateTime |-> "",
     UserID |-> I64(0)]

\* FOREIGN KEY(user_id) REFERENCES users(id), with PRAGMA foreign_keys = ON
UserExists(us, id) == \E u \in us : u.ID = id

\* FOREIGN KEY(event_id) REFERENCES events(id)
EventExists(evs, id) == \E e \in evs : e.ID = id

\* A Save on a connection that does not enforce the foreign key on user_id.
EventSave_NoForeignKey(e, evs, seq, us) ==
    [err |-> FALSE, event |-> [e EXCEPT !.ID = seq + 1],
     events |-> evs \cup {[e EXCEPT !.ID = seq + 1]}, seq |-> seq + 1]

\* Event.Save: INSERT INTO events; sets e.ID to the new row id.
EventSave(e, evs, seq, us) ==
    IF ~UserExists(us, e.UserID)
    THEN [err |-> TRUE, event |-> e, events |-> evs, seq |-> seq]
    ELSE [err |-> FALSE, event |-> [e EXCEPT !.ID = seq + 1],
          events |-> evs \cup {[e EXCEPT !.ID = seq + 1]}, seq |-> seq + 1]

\* Event.Update: UPDATE events SET ... WHERE id = e.ID.  No row: no error.
EventUpdate(e, evs, us) ==
    IF ~EventExists(evs, e.ID) THEN [err |-> FALSE, events |-> evs]
    ELSE IF ~UserExists(us, e.UserID) THEN [err |-> TRUE, events |-> evs]
    ELSE [err |-> FALSE,
          events |-> {x \in evs : x.ID # e.ID} \cup {e}]

\* A Delete on a connection that does not enforce the foreign key of
\* registrations.event_id.
EventDelete_NoForeignKey(e, evs, regs) ==
    [err |-> FALSE, events |-> {x \in evs : x.ID # e.ID}]

\* Event.Delete: DELETE FROM events WHERE id = e.ID.  A registration that
\* references the row makes the statement fail.
EventDelete(e, evs, regs) ==
    IF \E r \in DOMAIN regs : r.EventID = e.ID THEN [err |-> TRUE, events |-> evs]
    ELSE [err |-> FALSE, events |-> {x \in evs : x.ID # e.ID}]

\* What db.DB.Query returns beside its rows: no error, or the error of a
\* database that could not run the query.
StoreFaults == {"", "database is locked"}

\* The rows of the events table in the order a full scan yields them.
RowsById(evs) ==
    CHOOSE rows \in [1..Cardinality(evs) -> evs] :
       \A i, j \in 1..Cardinality(evs) : i < j => rows[i].ID < rows[j].ID

\* A scan loop that leaves the first row out.
GetAllEvents_SkipsFirst(evs, fault) ==
    IF fault # "" THEN [err |-> TRUE, text |-> fault, events |-> <<>>]
    ELSE [err |-> FALSE, text |-> "",
          events |-> IF evs = {} THEN <<>> ELSE Tail(RowsById(evs))]

\* GetAllEvents: SELECT * FROM events, one Event appended for each row.
GetAllEvents(evs, fault) ==
    IF fault # "" THEN [err |-> TRUE, text |-> fault, events |-> <<>>]
    ELSE [err |-> FALSE, text |-> "", events |-> RowsById(evs)]

\* GetEventByID: SELECT * FROM events WHERE id = ?
GetEventByID(id, evs) ==
    IF EventExists(evs, id)
    THEN [err |-> FALSE, event |-> CHOOSE e \in evs : e.ID = id]
    ELSE [err |-> TRUE, event |-> ZeroEvent]

\* The registrations table without rows.
NoRegistrations == [r \in {} |-> 0]

\* The table regs with one more row for the pair.
WithRow(regs, pair) ==
    [r \in DOMAIN regs \cup {pair} |->
        IF r = pair
        THEN (IF pair \in DOMAIN regs THEN regs[pair] ELSE 0) + 1
        ELSE regs[r]]

\* The table regs without the rows of the pair.
WithoutRows(regs, pair) == [r \in DOMAIN regs \ {pair} |-> regs[r]]

\* An INSERT that does not look at UNIQUE(event_id, user_id).
InsertRegistration_NoUnique(regs, evs, us, eventId, userId) ==
    IF ~EventExists(evs, eventId) \/ ~UserExists(us, userId)
    THEN [err |-> TRUE, registrations |-> regs]
    ELSE [err |-> FALSE,
          registrations |-> WithRow(regs, [EventID |-> eventId, UserID |-> userId])]

\* INSERT INTO registrations (event_id, user_id): both columns are foreign
\* keys and the pair is UNIQUE.
InsertRegistration(regs, evs, us, eventId, userId) ==
    IF \/ ~EventExists(evs, eventId)
       \/ ~UserExists(us, userId)
       \/ [EventID |-> eventId, UserID |-> userId] \in DOMAIN regs
    THEN [err |-> TRUE, registrations |-> regs]
    ELSE [err |-> FALSE,
          registrations |-> WithRow(regs, [EventID |-> eventId, UserID |-> userId])]

\* Event.Register: inserts the registration of userId for the event.
EventRegister(e, userId, regs, evs, us) ==
    InsertRegistration(regs, evs, us, e.ID, userId)

\* Event.Unregister: DELETE FROM registrations WHERE event_id AND user_id
EventUnregister(e, userId, regs) ==
    [err |-> FALSE,
     registrations |-> WithoutRows(regs, [EventID |-> e.ID, UserID |-> userId])]

\* ---------------------------------------------------------- gin plumbing
\* A path parameter: a decimal numeral or some other text.
Num(n) == [digits |-> TRUE, val |-> n]
NotANumber == [digits |-> FALSE, val |-> 0]
NoParam == [digits |-> FALSE, val |-> -1]

\* strconv.ParseInt(c.Param("id"), 10, 64)
ParseInt(param) ==
    IF param.digits THEN [err |-> FALSE, val |-> param.val]
    ELSE [err |-> TRUE, val |-> 0]

\* The response writer before anything is written: gin answers 200.
Fresh == [status |-> 200, body |-> <<>>, panic |-> FALSE]

Obj(key, text) == [key |-> key, text |-> text, data |-> {}]
Data(key, data) == [key |-> key, text |-> "", data |-> {data}]

\* c.JSON(code, obj): the status line can be set until the first write; a
\* later c.JSON only appends its object to the body.
JSON(w, code, obj) ==
    [w EXCEPT !.status = IF w.body = <<>> THEN code ELSE w.status,
              !.body = Append(w.body, obj)]

\* gin's Recovery middleware (gin.Default) answers a panic with 500.
Recovered == [status |-> 500, body |-> <<>>, panic |-> TRUE]

NoBody == [malformed |-> FALSE]
MalformedJSON == [malformed |-> TRUE]

\* Request bodies of POST /signup and POST /login.
UserBodies ==
    {MalformedJSON} \cup
    { [malformed |-> FALSE, email |-> e, password |-> p] :
        e \in Emails \cup {""}, p \in Passwords \cup {""} }

\* Request bodies of POST /events and PUT /events/:id.
EventBodies ==
    {MalformedJSON} \cup
    { [malformed |-> FALSE, name |-> n, description |-> d, location |-> l,
       date_time |-> t, user_id |-> u] :
        n \in Names, d \in Descriptions, l \in Locations, t \in DateTimes,
        u \in UserIdInputs }

ZeroUser == [ID |-> I64(0), Email |-> "", Password |-> ""]

\* c.ShouldBindJSON(&user): decodes, then checks binding:"required".
ShouldBindUser(body) ==
    IF body.malformed THEN [err |-> TRUE, user |-> ZeroUser]
    ELSE LET u == [ID |-> I64(0), Email |-> body.email, Password |-> body.password]
         IN  [err |-> u.Email = "" \/ u.Password = "", user |-> u]

\* c.ShouldBindJSON(&event): decodes, then checks binding:"required".
ShouldBindEvent(body) ==
    IF body.malformed THEN [err |-> TRUE, event |-> ZeroEvent]
    ELSE LET e == [ID |-> 0, Name |-> body.name, Description |-> body.description,
                   Location |-> body.location, DateTime |-> body.date_time,
                   UserID |-> body.user_id]
         IN  [err |-> \/ e.Name = "" \/ e.Description = ""
                      \/ e.Location = "" \/ e.DateTime = "",
              event |-> e]

\* ------------------------------------------------------------- middleware
Abort401 ==
    [aborted |-> TRUE, userId |-> I64(0),
     w |-> JSON(Fresh, 401, Obj("error", "Unauthorized"))]

\* A middleware that looks the token's user up in the users table. It reads
\* the variable users, so its answer follows the store.
Authenticate_UserMustExist(token, now_) ==
    IF token = EmptyString THEN Abort401
    ELSE LET v == ValidateToken(token, now_)
         IN  IF v.kind = "error" THEN Abort401
             ELSE IF v.kind = "panic"
                  THEN [aborted |-> TRUE, userId |-> I64(0), w |-> Recovered]
             ELSE IF \A u \in users : u.ID # v.userId THEN Abort401
             ELSE [aborted |-> FALSE, userId |-> v.userId, w |-> Fresh]

\* auth.Authenticate: aborts with 401, or binds "userId" and calls c.Next().
Authenticate(token, now_) ==
    IF token = EmptyString THEN Abort401
    ELSE LET v == ValidateToken(token, now_)
         IN  IF v.kind = "error" THEN Abort401
             ELSE IF v.kind = "panic"
                  THEN [aborted |-> TRUE, userId |-> I64(0), w |-> Recovered]
             ELSE [aborted |-> FALSE, userId |-> v.userId, w |-> Fresh]

Request(route, token) == [route |-> route, token |-> token]
NotInvoked == [calls |-> 0, userId |-> I64(0), param |-> NoParam, body |-> NoBody]
Invoked(userId, param, body) ==
    [calls |-> 1, userId |-> userId, param |-> param, body |-> body]

\* --------------------------------------------------------- route handlers
\* The store as the handlers see it, and a handler's outcome: the response
\* written, the store after it, and what it read of the request.
St == [users |-> users, userSeq |-> userSeq, events |-> events,
       eventSeq |-> eventSeq, registrations |-> registrations]

Done(w, st, param, body) == [w |-> w, st |-> st, param |-> param, body |-> body]

signup(userId, param, body, st) ==
    LET b == ShouldBindUser(body)
    IN  IF b.err
        THEN Done(JSON(Fresh, 400, Obj("error", "Invalid user data")), st, NoParam, body)
        ELSE LET s == UserSave(b.user, st.users, st.userSeq)
             IN  IF s.err
                 THEN Done(JSON(Fresh, 500, Obj("error", "User could not be saved")),
                           st, NoParam, body)
                 ELSE Done(JSON(Fresh, 201, Obj("message", "User created successfully")),
                           [st EXCEPT !.users = s.users, !.userSeq = s.seq],
                           NoParam, body)

login(userId, param, body, st, now_) ==
    LET b == ShouldBindUser(body)
    IN  IF b.err
        THEN Done(JSON(Fresh, 400, Obj("error", "Invalid user data")), st, NoParam, body)
        ELSE LET v == UserValidateCredentials(b.user, st.users)
             IN  IF v.err # ""
                 THEN Done(JSON(Fresh, 401, Obj("error", "Invalid credentials")),
                           st, NoParam, body)
                 ELSE Done(JSON(Fresh, 200,
                                [key |-> "message", text |-> "User logged in successfully",
                                 data |-> {GenerateToken(v.user.Email, v.user.ID, now_)}]),
                           st, NoParam, body)

getEvents(userId, param, body, st, fault) ==
    LET g == GetAllEvents(st.events, fault)
    IN  IF g.err THEN Done(JSON(Fresh, 500, Obj("error", g.text)), st, NoParam, NoBody)
        ELSE Done(JSON(Fresh, 200, Data("events", g.events)), st, NoParam, NoBody)

\* A handler that answers an id without an event as the mutating handlers do.
getEventByID_NotFound500(userId, param, body, st) ==
    LET p == ParseInt(param)
    IN  IF p.err
        THEN Done(JSON(Fresh, 400, Obj("error", "Invalid event ID")), st, param, NoBody)
        ELSE LET g == GetEventByID(p.val, st.events)
             IN  IF g.err
                 THEN Done(JSON(Fresh, 500, Obj("error", "Event not found")), st, param, NoBody)
                 ELSE Done(JSON(Fresh, 200, Data("event", g.event)), st, param, NoBody)

getEventByID(userId, param, body, st) ==
    LET p == ParseInt(param)
    IN  IF p.err
        THEN Done(JSON(Fresh, 400, Obj("error", "Invalid event ID")), st, param, NoBody)
        ELSE LET g == GetEventByID(p.val, st.events)
             IN  IF g.err
                 THEN Done(JSON(Fresh, 404, Obj("error", "Event not found")), st, param, NoBody)
                 ELSE Done(JSON(Fresh, 200, Data("event", g.event)), st, param, NoBody)

\* A handler that keeps the user_id of the request body.
createEvent_BodyOwner(userId, param, body, st) ==
    LET b == ShouldBindEvent(body)
    IN  IF b.err
        THEN Done(JSON(Fresh, 400, Obj("error", "Invalid event data")), st, NoParam, body)
        ELSE LET s == EventSave(b.event, st.events, st.eventSeq, st.users)
             IN  IF s.err
                 THEN Done(JSON(Fresh, 500, Obj("error", "Event could not be created")),
                           st, NoParam, body)
                 ELSE Done(JSON(Fresh, 201, Data("event", s.event)),
                           [st EXCEPT !.events = s.events, !.eventSeq = s.seq],
                           NoParam, body)

createEvent(userId, param, body, st) ==
    LET b == ShouldBindEvent(body)
    IN  IF b.err
        THEN Done(JSON(Fresh, 400, Obj("error", "Invalid event data")), st, NoParam, body)
        ELSE LET event == [b.event EXCEPT !.UserID = userId]
                 s == EventSave(event, st.events, st.eventSeq, st.users)
             IN  IF s.err
                 THEN Done(JSON(Fresh, 500, Obj("error", "Event could not be created")),
                           st, NoParam, body)
                 ELSE Done(JSON(Fresh, 201, Data("event", s.event)),
                           [st EXCEPT !.events = s.events, !.eventSeq = s.seq],
                           NoParam, body)

\* The part of updateEvents after the ownership check: binds the body, goes
\* on after a binding error, and updates.
updateBound(id, param, body, st) ==
    LET b == ShouldBindEvent(body)
        w1 == IF b.err THEN JSON(Fresh, 400, Obj("error", "Invalid event data"))
              ELSE Fresh
        updatedEvent == [b.event EXCEPT !.ID = id]
        u == EventUpdate(updatedEvent, st.events, st.users)
    IN  IF u.err
        THEN Done(JSON(w1, 500, Obj("error", "Event could not be updated")), st, param, body)
        ELSE Done(JSON(w1, 200, Obj("message", "Event updated successfully")),
                  [st EXCEPT !.events = u.events], param, body)

\* A handler without the ownership check.
updateEvents_NoOwnerCheck(userId, param, body, st) ==
    LET p == ParseInt(param)
    IN  IF p.err
        THEN Done(JSON(Fresh, 400, Obj("error", "Invalid event ID")), st, param, NoBody)
        ELSE IF GetEventByID(p.val, st.events).err
             THEN Done(JSON(Fresh, 500, Obj("error", "Event not found")), st, param, NoBody)
             ELSE updateBound(p.val, param, body, st)

\* A handler that answers a caller who is not the owner with 403.
updateEvents_Forbidden(userId, param, body, st) ==
    LET p == ParseInt(param)
    IN  IF p.err
        THEN Done(JSON(Fresh, 400, Obj("error", "Invalid event ID")), st, param, NoBody)
        ELSE LET g == GetEventByID(p.val, st.events)
             IN  IF g.err
                 THEN Done(JSON(Fresh, 500, Obj("error", "Event not found")),
                           st, param, NoBody)
                 ELSE IF g.event.UserID # userId
                 THEN Done(JSON(Fresh, 403, Obj("error", "Forbidden")),
                           st, param, NoBody)
                 ELSE updateBound(p.val, param, body, st)

updateEvents(userId, param, body, st) ==
    LET p == ParseInt(param)
    IN  IF p.err
        THEN Done(JSON(Fresh, 400, Obj("error", "Invalid event ID")), st, param, NoBody)
        ELSE LET g == GetEventByID(p.val, st.events)
             IN  IF g.err
                 THEN Done(JSON(Fresh, 500, Obj("error", "Event not found")),
                           st, param, NoBody)
                 ELSE IF g.event.UserID # userId
                 THEN Done(JSON(Fresh, 401, Obj("error", "Unauthorized")),
                           st, param, NoBody)
                 ELSE updateBound(p.val, param, body, st)

deleteEvent(userId, param, body, st) ==
    LET p == ParseInt(param)
    IN  IF p.err
        THEN Done(JSON(Fresh, 400, Obj("error", "Invalid event ID")), st, param, NoBody)
        ELSE LET g == GetEventByID(p.val, st.events)
             IN  IF g.err THEN Done(Fresh, st, param, NoBody)
                 ELSE IF g.event.UserID # userId
                 THEN Done(JSON(Fresh, 401, Obj("error", "Unauthorized")),
                           st, param, NoBody)
                 ELSE LET d == EventDelete(g.event, st.events, st.registrations)
                      IN  IF d.err
                          THEN Done(JSON(Fresh, 500,
                                         Obj("error", "Event could not be deleted")),
                                    st, param, NoBody)
                          ELSE Done(JSON(Fresh, 200,
                                         Obj("message", "Event deleted successfully")),
                                    [st EXCEPT !.events = d.events], param, NoBody)

registerEvent(userId, param, body, st) ==
    LET p == ParseInt(param)
    IN  IF p.err
        THEN Done(JSON(Fresh, 400, Obj("error", "Invalid event ID")), st, param, NoBody)
        ELSE LET g == GetEventByID(p.val, st.events)
             IN  IF g.err
                 THEN Done(JSON(Fresh, 500, Obj("error", "Event not found")),
                           st, param, NoBody)
                 ELSE LET r == EventRegister(g.event, userId, st.registrations,
                                             st.events, st.users)
                      IN  IF r.err
                          THEN Done(JSON(Fresh, 500,
                                         Obj("error", "Event could not be registered")),
                                    st, param, NoBody)
                          ELSE Done(JSON(Fresh, 201,
                                         Obj("message", "Event registered successfully")),
                                    [st EXCEPT !.registrations = r.registrations],
                                    param, NoBody)

unregisterEvent(userId, param, body, st) ==
    LET p == ParseInt(param)
    IN  IF p.err
        THEN Done(JSON(Fresh, 400, Obj("error", "Invalid event ID")), st, param, NoBody)
        ELSE LET g == GetEventByID(p.val, st.events)
             IN  IF g.err
                 THEN Done(JSON(Fresh, 500, Obj("error", "Event not found")),
                           st, param, NoBody)
                 ELSE LET r == EventUnregister(g.event, userId, st.registrations)
                      IN  IF r.err
                          THEN Done(JSON(Fresh, 500,
                                         Obj("error", "Event could not be unregistered")),
                                    st, param, NoBody)
                          ELSE Done(JSON(Fresh, 200,
                                         Obj("message", "Event unregistered successfully")),
                                    [st EXCEPT !.registrations = r.registrations],
                                    param, NoBody)

\* --------------------------------------------------------------- requests
TokenEmail == "a@x.com"

\* Tokens the token service did not issue: unsigned, signed under another
\* algorithm or key, or signed without a usable id claim.
ForgedTokens(t) ==
    { Token("none", "", TokenEmail, "number", I64(1), TRUE, t + TokenTTL),
      Token("HS256", "otherKey", TokenEmail, "number", I64(1), TRUE, t + TokenTTL),
      Token("HS256", secretKey, TokenEmail, "absent", I64(0), TRUE, t + TokenTTL) }

\* Authorization headers of the requests at time t: none, tokens issued just
\* now (one of them for the user id 2^53 + 1), a token issued TokenTTL hours
\* ago, and forged ones.
PresentedTokens(t) ==
    {EmptyString}
    \cup { GenerateToken(TokenEmail, u, t) : u \in UserIdInputs }
    \cup { GenerateToken(TokenEmail, [hi |-> 1, lo |-> 1], t) }
    \cup { GenerateToken(TokenEmail, I64(1), t - TokenTTL) }
    \cup ForgedTokens(t)

Params == { Num(n) : n \in 1..MaxEvents + 1 } \cup {NotANumber}

\* The handler ran: its response, what it read, and the store it left.
Handle(route, token, userId, r) ==
    /\ req' = Request(route, token)
    /\ h' = Invoked(userId, r.param, r.body)
    /\ resp' = r.w
    /\ users' = r.st.users
    /\ userSeq' = r.st.userSeq
    /\ events' = r.st.events
    /\ eventSeq' = r.st.eventSeq
    /\ registrations' = r.st.registrations
    /\ UNCHANGED <<now, life, inflight, call>>

\* The middleware aborted: the handler is not called.
Reject(route, token, a) ==
    /\ req' = Request(route, token)
    /\ h' = NotInvoked
    /\ resp' = a.w
    /\ UNCHANGED <<store, now, life, inflight, call>>

\* server.POST("/signup", signup)
PostSignup(body) ==
    Handle("POST /signup", EmptyString, I64(0), signup(I64(0), NoParam, body, St))

\* server.POST("/login", login)
PostLogin(body) ==
    Handle("POST /login", EmptyString, I64(0), login(I64(0), NoParam, body, St, now))

\* server.GET("/events", getEvents)
GetEvents(fault) ==
    Handle("GET /events", EmptyString, I64(0),
           getEvents(I64(0), NoParam, NoBody, St, fault))

\* server.GET("/events/:id", getEventByID)
GetEvent(param) ==
    Handle("GET /events/:id", EmptyString, I64(0),
           getEventByID(I64(0), param, NoBody, St))

\* authenticated.Use(auth.Authenticate): a request to a protected route that
\* the middleware aborts.
Unauthenticated(route, token) ==
    /\ Authenticate(token, now).aborted
    /\ Reject(route, token, Authenticate(token, now))

\* authenticated.POST("/events", createEvent)
PostEvents(token, body) ==
    /\ eventSeq < MaxEvents
    /\ ~Authenticate(token, now).aborted
    /\ LET a == Authenticate(token, now)
       IN  Handle("POST /events", token, a.userId,
                  createEvent(a.userId, NoParam, body, St))

\* authenticated.PUT("/events/:id", updateEvents)
PutEvent(token, param, body) ==
    /\ ~Authenticate(token, now).aborted
    /\ LET a == Authenticate(token, now)
       IN  Handle("PUT /events/:id", token, a.userId,
                  updateEvents(a.userId, param, body, St))

\* authenticated.DELETE("/events/:id", deleteEvent)
DeleteEvent(token, param) ==
    /\ ~Authenticate(token, now).aborted
    /\ LET a == Authenticate(token, now)
       IN  Handle("DELETE /events/:id", token, a.userId,
                  deleteEvent(a.userId, param, NoBody, St))

\* authenticated.POST("/events/:id/register", registerEvent)
PostRegister(token, param) ==
    /\ ~Authenticate(token, now).aborted
    /\ LET a == Authenticate(token, now)
       IN  Handle("POST /events/:id/register", token, a.userId,
                  registerEvent(a.userId, param, NoBody, St))

\* authenticated.DELETE("/events/:id/register", unregisterEvent)
DeleteRegister(token, param) ==
    /\ ~Authenticate(token, now).aborted
    /\ LET a == Authenticate(token, now)
       IN  Handle("DELETE /events/:id/register", token, a.userId,
                  unregisterEvent(a.userId, param, NoBody, St))

ProtectedRoutes ==
    {"POST /events", "PUT /events/:id", "DELETE /events/:id",
     "POST /events/:id/register", "DELETE /events/:id/register"}

NoToken == [origin |-> "none", email |-> "", userId |-> I64(0), at |-> 0,
            token |-> EmptyString]
NotValidated == [done |-> FALSE, at |-> 0, result |-> InvalidToken]

\* net/http runs each request's handler in a goroutine of its own.
Slots == 1..MaxRequests

\* A handler between two statements on the database: where it is, and its
\* local variables.
Running(pc, route, token, userId, param, body, user, hash, event) ==
    [pc |-> pc, route |-> route, token |-> token, userId |-> userId,
     param |-> param, body |-> body, user |-> user, hash |-> hash, event |-> event]

Idle ==
    Running("idle", "", EmptyString, I64(0), NoParam, NoBody, ZeroUser,
            [bcrypt |-> ""], ZeroEvent)

\* A call of a method of the models package.
Call(op, user, event, userId, err) ==
    [op |-> op, user |-> user, event |-> event, userId |-> userId, err |-> err,
     rows |-> <<>>]

NoCall == Call("", ZeroUser, ZeroEvent, I64(0), "")

\* The server starts on an empty database, two token lifetimes after the
\* epoch.
Init ==
    /\ users = {}
    /\ userSeq = 0
    /\ events = {}
    /\ eventSeq = 0
    /\ registrations = NoRegistrations
    /\ now = 2 * TokenTTL
    /\ req = Request("", EmptyString)
    /\ h = NotInvoked
    /\ resp = Fresh
    /\ issued = NoToken
    /\ validated = NotValidated
    /\ inflight = [slot \in Slots |-> Idle]
    /\ call = NoCall

Next ==
    \/ \E body \in UserBodies : PostSignup(body)
    \/ \E body \in UserBodies : PostLogin(body)
    \/ \E fault \in StoreFaults : GetEvents(fault)
    \/ \E param \in Params : GetEvent(param)
    \/ \E route \in ProtectedRoutes, token \in PresentedTokens(now) :
          Unauthenticated(route, token)
    \/ \E token \in PresentedTokens(now), body \in EventBodies : PostEvents(token, body)
    \/ \E token \in PresentedTokens(now), param \in Params, body \in EventBodies :
          PutEvent(token, param, body)
    \/ \E token \in PresentedTokens(now), param \in Params : DeleteEvent(token, param)
    \/ \E token \in PresentedTokens(now), param \in Params : PostRegister(token, param)
    \/ \E token \in PresentedTokens(now), param \in Params : DeleteRegister(token, param)

Spec == Init /\ [][Next]_vars

\* ---------------------------------------------------- concurrent requests
\* Tokens of the requests that run concurrently: the ones the token service
\* issued to the users the table can hold.
BearerTokens(t) ==
    { GenerateToken(TokenEmail, I64(n), t) : n \in 1..Cardinality(Emails) }

\* Bodies of the signups that run concurrently.
ConcurrentSignups ==
    { [malformed |-> FALSE, email |-> e, password |-> "p1"] : e \in Emails }

\* Bodies of the POST /events that run beside them.
ConcurrentEvents ==
    { b \in EventBodies : ~b.malformed /\ b.name = "n1" /\ b.user_id = I64(0) }

\* A handler writes its response and returns.
Respond(slot, w, param, body) ==
    /\ req' = Request(inflight[slot].route, inflight[slot].token)
    /\ h' = Invoked(inflight[slot].userId, param, body)
    /\ resp' = w
    /\ inflight' = [inflight EXCEPT ![slot] = Idle]

\* A handler goes on to its next statement.
Goto(slot, pc, event) ==
    /\ inflight' = [inflight EXCEPT ![slot].pc = pc, ![slot].event = event]
    /\ UNCHANGED <<store, http>>

\* signup up to stmt.Exec: binds the body and hashes the password.
SignupBegin(slot, body) ==
    /\ inflight[slot] = Idle
    /\ LET b == ShouldBindUser(body)
           hp == HashPassword(b.user.Password)
           me == Running("exec", "POST /signup", EmptyString, I64(0), NoParam,
                         body, b.user, hp.hash, ZeroEvent)
       IN  IF b.err
           THEN /\ req' = Request("POST /signup", EmptyString)
                /\ h' = Invoked(I64(0), NoParam, body)
                /\ resp' = JSON(Fresh, 400, Obj("error", "Invalid user data"))
                /\ UNCHANGED inflight
           ELSE IF hp.err
           THEN /\ req' = Request("POST /signup", EmptyString)
                /\ h' = Invoked(I64(0), NoParam, body)
                /\ resp' = JSON(Fresh, 500, Obj("error", "User could not be saved"))
                /\ UNCHANGED inflight
           ELSE /\ inflight' = [inflight EXCEPT ![slot] = me]
                /\ UNCHANGED http
    /\ UNCHANGED <<store, now, life, call>>

\* signup from stmt.Exec on: the INSERT, then the response.
SignupExec(slot) ==
    /\ inflight[slot].pc = "exec"
    /\ inflight[slot].route = "POST /signup"
    /\ LET me == inflight[slot]
           ins == InsertUser(users, userSeq, me.user.Email, me.hash)
       IN  /\ users' = ins.users
           /\ userSeq' = ins.seq
           /\ IF ins.err
              THEN Respond(slot, JSON(Fresh, 500, Obj("error", "User could not be saved")),
                           NoParam, me.body)
              ELSE Respond(slot, JSON(Fresh, 201, Obj("message", "User created successfully")),
                           NoParam, me.body)
    /\ UNCHANGED <<events, eventSeq, registrations, now, life, call>>

\* registerEvent and unregisterEvent up to GetEventByID: the middleware
\* binds the caller, the handler parses the path's id.
RegistrationBegin(slot, route, token, param) ==
    /\ inflight[slot] = Idle
    /\ LET a == Authenticate(token, now)
           p == ParseInt(param)
           me == Running("select", route, token, a.userId, param, NoBody,
                         ZeroUser, [bcrypt |-> ""], ZeroEvent)
       IN  IF p.err
           THEN /\ req' = Request(route, token)
                /\ h' = Invoked(a.userId, param, NoBody)
                /\ resp' = JSON(Fresh, 400, Obj("error", "Invalid event ID"))
                /\ UNCHANGED inflight
           ELSE /\ inflight' = [inflight EXCEPT ![slot] = me]
                /\ UNCHANGED http
    /\ UNCHANGED <<store, now, life, call>>

\* models.GetEventByID(eventId) of registerEvent and unregisterEvent.
RegistrationSelect(slot) ==
    /\ inflight[slot].pc = "select"
    /\ LET me == inflight[slot]
           g == GetEventByID(ParseInt(me.param).val, events)
       IN  IF g.err
           THEN /\ Respond(slot, JSON(Fresh, 500, Obj("error", "Event not found")),
                           me.param, NoBody)
                /\ UNCHANGED store
           ELSE Goto(slot, "write", g.event)
    /\ UNCHANGED <<now, life, call>>

\* A handler that registers the event's owner in place of the caller.
RegisterExec_AsOwner(slot) ==
    /\ inflight[slot].pc = "write"
    /\ inflight[slot].route = "POST /events/:id/register"
    /\ LET me == inflight[slot]
           r == EventRegister(me.event, me.event.UserID, registrations, events, users)
       IN  /\ registrations' = r.registrations
           /\ IF r.err
              THEN Respond(slot, JSON(Fresh, 500,
                                      Obj("error", "Event could not be registered")),
                           me.param, NoBody)
              ELSE Respond(slot, JSON(Fresh, 201,
                                      Obj("message", "Event registered successfully")),
                           me.param, NoBody)
    /\ UNCHANGED <<users, userSeq, events, eventSeq, now, life, call>>

\* event.Register(userId) of registerEvent, then the response.
RegisterExec(slot) ==
    /\ inflight[slot].pc = "write"
    /\ inflight[slot].route = "POST /events/:id/register"
    /\ LET me == inflight[slot]
           r == EventRegister(me.event, me.userId, registrations, events, users)
       IN  /\ registrations' = r.registrations
           /\ IF r.err
              THEN Respond(slot, JSON(Fresh, 500,
                                      Obj("error", "Event could not be registered")),
                           me.param, NoBody)
              ELSE Respond(slot, JSON(Fresh, 201,
                                      Obj("message", "Event registered successfully")),
                           me.param, NoBody)
    /\ UNCHANGED <<users, userSeq, events, eventSeq, now, life, call>>

\* A handler that takes a DELETE that removed no row for a failure.
UnregisterExec_RowsAffected(slot) ==
    /\ inflight[slot].pc = "write"
    /\ inflight[slot].route = "DELETE /events/:id/register"
    /\ LET me == inflight[slot]
           r == EventUnregister(me.event, me.userId, registrations)
       IN  /\ registrations' = r.registrations
           /\ IF r.err \/ r.registrations = registrations
              THEN Respond(slot, JSON(Fresh, 500,
                                      Obj("error", "Event could not be unregistered")),
                           me.param, NoBody)
              ELSE Respond(slot, JSON(Fresh, 200,
                                      Obj("message", "Event unregistered successfully")),
                           me.param, NoBody)
    /\ UNCHANGED <<users, userSeq, events, eventSeq, now, life, call>>

\* event.Unregister(userId) of unregisterEvent, then the response.
UnregisterExec(slot) ==
    /\ inflight[slot].pc = "write"
    /\ inflight[slot].route = "DELETE /events/:id/register"
    /\ LET me == inflight[slot]
           r == EventUnregister(me.event, me.userId, registrations)
       IN  /\ registrations' = r.registrations
           /\ IF r.err
              THEN Respond(slot, JSON(Fresh, 500,
                                      Obj("error", "Event could not be unregistered")),
                           me.param, NoBody)
              ELSE Respond(slot, JSON(Fresh, 200,
                                      Obj("message", "Event unregistered successfully")),
                           me.param, NoBody)
    /\ UNCHANGED <<users, userSeq, events, eventSeq, now, life, call>>

RegistrationRoutes == {"POST /events/:id/register", "DELETE /events/:id/register"}

ConcInit == Init

\* Signups, registrations and unregistrations run concurrently, statement by
\* statement; createEvent is a single statement.
ConcNext ==
    \/ \E slot \in Slots, body \in ConcurrentSignups : SignupBegin(slot, body)
    \/ \E slot \in Slots : SignupExec(slot)
    \/ \E token \in BearerTokens(now), body \in ConcurrentEvents :
          PostEvents(token, body)
    \/ \E slot \in Slots, route \in RegistrationRoutes,
          token \in BearerTokens(now), param \in Params :
          RegistrationBegin(slot, route, token, param)
    \/ \E slot \in Slots : RegistrationSelect(slot)
    \/ \E slot \in Slots : RegisterExec(slot)
    \/ \E slot \in Slots : UnregisterExec(slot)

ConcSpec == ConcInit /\ [][ConcNext]_vars

\* The same with deleteEvent beside them, taken whole: its one write is
\* event.Delete().
ReferenceNext ==
    \/ ConcNext
    \/ \E token \in BearerTokens(now), param \in Params : DeleteEvent(token, param)

ReferenceSpec == ConcInit /\ [][ReferenceNext]_vars

\* ------------------------------------------- concurrent updates and deletes
\* Bodies of the PUT /events/:id that run concurrently.
ConcurrentUpdates ==
    { b \in EventBodies : ~b.malformed /\ b.name = "n2" /\ b.user_id # I64(0) }

\* updateEvents and deleteEvent up to GetEventByID: the middleware binds the
\* caller, the handler parses the path's id.
MutationBegin(slot, route, token, param, body) ==
    /\ inflight[slot] = Idle
    /\ LET a == Authenticate(token, now)
           p == ParseInt(param)
           me == Running("load", route, token, a.userId, param, body,
                         ZeroUser, [bcrypt |-> ""], ZeroEvent)
       IN  IF p.err
           THEN /\ req' = Request(route, token)
                /\ h' = Invoked(a.userId, param, NoBody)
                /\ resp' = JSON(Fresh, 400, Obj("error", "Invalid event ID"))
                /\ UNCHANGED inflight
           ELSE /\ inflight' = [inflight EXCEPT ![slot] = me]
                /\ UNCHANGED http
    /\ UNCHANGED <<store, now, life, call>>

\* models.GetEventByID(id) of updateEvents and deleteEvent, and the
\* comparison of the event's owner with the caller.
MutationSelect(slot) ==
    /\ inflight[slot].pc = "load"
    /\ LET me == inflight[slot]
           g == GetEventByID(ParseInt(me.param).val, events)
       IN  IF g.err
           THEN /\ Respond(slot,
                           IF me.route = "PUT /events/:id"
                           THEN JSON(Fresh, 500, Obj("error", "Event not found"))
                           ELSE Fresh,
                           me.param, NoBody)
                /\ UNCHANGED store
           ELSE IF g.event.UserID # me.userId
           THEN /\ Respond(slot, JSON(Fresh, 401, Obj("error", "Unauthorized")),
                           me.param, NoBody)
                /\ UNCHANGED store
           ELSE Goto(slot, "apply", g.event)
    /\ UNCHANGED <<now, life, call>>

\* updateEvents from ShouldBindJSON on: updatedEvent.Update(), then the
\* response.
UpdateExec(slot) ==
    /\ inflight[slot].pc = "apply"
    /\ inflight[slot].route = "PUT /events/:id"
    /\ LET me == inflight[slot]
           r == updateBound(ParseInt(me.param).val, me.param, me.body, St)
       IN  /\ events' = r.st.events
           /\ Respond(slot, r.w, r.param, r.body)
    /\ UNCHANGED <<users, userSeq, eventSeq, registrations, now, life, call>>

\* event.Delete() of deleteEvent, then the response.
DeleteExec(slot) ==
    /\ inflight[slot].pc = "apply"
    /\ inflight[slot].route = "DELETE /events/:id"
    /\ LET me == inflight[slot]
           d == EventDelete(me.event, events, registrations)
       IN  /\ events' = d.events
           /\ IF d.err
              THEN Respond(slot, JSON(Fresh, 500,
                                      Obj("error", "Event could not be deleted")),
                           me.param, NoBody)
              ELSE Respond(slot, JSON(Fresh, 200,
                                      Obj("message", "Event deleted successfully")),
                           me.param, NoBody)
    /\ UNCHANGED <<users, userSeq, eventSeq, registrations, now, life, call>>

\* Updates and deletions run concurrently, statement by statement; signup and
\* createEvent are taken whole.
MutationNext ==
    \/ \E body \in ConcurrentSignups : PostSignup(body)
    \/ \E token \in BearerTokens(now), body \in ConcurrentEvents :
          PostEvents(token, body)
    \/ \E slot \in Slots, token \in BearerTokens(now), param \in Params,
          body \in ConcurrentUpdates :
          MutationBegin(slot, "PUT /events/:id", token, param, body)
    \/ \E slot \in Slots, token \in BearerTokens(now), param \in Params :
          MutationBegin(slot, "DELETE /events/:id", token, param, NoBody)
    \/ \E slot \in Slots : MutationSelect(slot)
    \/ \E slot \in Slots : UpdateExec(slot)
    \/ \E slot \in Slots : DeleteExec(slot)

MutationSpec == Init /\ [][MutationNext]_vars

\* ----------------------------------------------------------- the accounts
\* The two routes that read and write the users table.
AccountNext ==
    \/ \E body \in UserBodies : PostSignup(body)
    \/ \E body \in UserBodies : PostLogin(body)

AccountSpec == Init /\ [][AccountNext]_vars

\* ------------------------------------------------- authenticated callers
\* The routes as the users the table can hold call them, each with a token
\* the token service issued for a user id.
CrudNext ==
    \/ \E body \in ConcurrentSignups : PostSignup(body)
    \/ \E fault \in StoreFaults : GetEvents(fault)
    \/ \E param \in Params : GetEvent(param)
    \/ \E token \in BearerTokens(now), body \in EventBodies : PostEvents(token, body)
    \/ \E token \in BearerTokens(now), param \in Params, body \in EventBodies :
          PutEvent(token, param, body)
    \/ \E token \in BearerTokens(now), param \in Params : DeleteEvent(token, param)
    \/ \E token \in BearerTokens(now), param \in Params : PostRegister(token, param)
    \/ \E token \in BearerTokens(now), param \in Params : DeleteRegister(token, param)

CrudSpec == Init /\ [][CrudNext]_vars

\* -------------------------------------------------------- the model layer
\* The methods of the models package called one by one, as its tests call
\* them, on receivers the handlers' binding would not let through.
ModelUsers ==
    { [ID |-> I64(0), Email |-> e, Password |-> p] :
        e \in Emails, p \in Passwords \cup {""} }

ModelEvents ==
    { [ID |-> i, Name |-> n, Description |-> "d", Location |-> "l",
       DateTime |-> "t", UserID |-> u] :
        i \in 0..MaxEvents + 1, n \in {"", "n1"}, u \in UserIdInputs }

\* Receivers of the methods that read the receiver's id only.
EventsById == { e \in ModelEvents : e.Name = "n1" /\ e.UserID = I64(1) }

ErrorOf(failed) == IF failed THEN "error" ELSE ""

\* user.Save()
CallUserSave(u) ==
    /\ LET s == UserSave(u, users, userSeq)
       IN  /\ users' = s.users
           /\ userSeq' = s.seq
           /\ call' = Call("User.Save", s.user, ZeroEvent, I64(0), ErrorOf(s.err))
    /\ UNCHANGED <<events, eventSeq, registrations, now, http, life, inflight>>

\* user.ValidateCredentials()
CallValidateCredentials(u) ==
    /\ LET v == UserValidateCredentials(u, users)
       IN  call' = Call("User.ValidateCredentials", v.user, ZeroEvent, I64(0), v.err)
    /\ UNCHANGED <<store, now, http, life, inflight>>

\* event.Save()
EventSaveCalled(e) ==
    /\ LET s == EventSave(e, events, eventSeq, users)
       IN  /\ events' = s.events
           /\ eventSeq' = s.seq
           /\ call' = Call("Event.Save", ZeroUser, s.event, I64(0), ErrorOf(s.err))
    /\ UNCHANGED <<users, userSeq, registrations, now, http, life, inflight>>

CallEventSave(e) ==
    /\ eventSeq < MaxEvents
    /\ EventSaveCalled(e)

\* event.Update()
CallEventUpdate(e) ==
    /\ LET u == EventUpdate(e, events, users)
       IN  /\ events' = u.events
           /\ call' = Call("Event.Update", ZeroUser, e, I64(0), ErrorOf(u.err))
    /\ UNCHANGED <<users, userSeq, eventSeq, registrations, now, http, life, inflight>>

\* event.Delete()
CallEventDelete(e) ==
    /\ LET d == EventDelete(e, events, registrations)
       IN  /\ events' = d.events
           /\ call' = Call("Event.Delete", ZeroUser, e, I64(0), ErrorOf(d.err))
    /\ UNCHANGED <<users, userSeq, eventSeq, registrations, now, http, life, inflight>>

\* GetEventByID(id)
CallGetEventByID(id) ==
    /\ LET g == GetEventByID(id, events)
       IN  call' = Call("GetEventByID", ZeroUser, [g.event EXCEPT !.ID = id],
                        I64(0), ErrorOf(g.err))
    /\ UNCHANGED <<store, now, http, life, inflight>>

\* GetAllEvents(), on a database that runs the query.
CallGetAllEvents ==
    /\ LET g == GetAllEvents(events, "")
       IN  call' = [Call("GetAllEvents", ZeroUser, ZeroEvent, I64(0), ErrorOf(g.err))
                      EXCEPT !.rows = g.events]
    /\ UNCHANGED <<store, now, http, life, inflight>>

\* event.Register(userId)
CallEventRegister(e, userId) ==
    /\ LET r == EventRegister(e, userId, registrations, events, users)
       IN  /\ registrations' = r.registrations
           /\ call' = Call("Event.Register", ZeroUser, e, userId, ErrorOf(r.err))
    /\ UNCHANGED <<users, userSeq, events, eventSeq, now, http, life, inflight>>

\* event.Unregister(userId)
CallEventUnregister(e, userId) ==
    /\ LET r == EventUnregister(e, userId, registrations)
       IN  /\ registrations' = r.registrations
           /\ call' = Call("Event.Unregister", ZeroUser, e, userId, ErrorOf(r.err))
    /\ UNCHANGED <<users, userSeq, events, eventSeq, now, http, life, inflight>>

ModelInit == Init

ModelNext ==
    \/ \E u \in ModelUsers : CallUserSave(u)
    \/ \E u \in ModelUsers : CallValidateCredentials(u)
    \/ \E e \in ModelEvents : CallEventSave(e)
    \/ \E e \in ModelEvents : CallEventUpdate(e)
    \/ \E e \in EventsById : CallEventDelete(e)
    \/ \E id \in 0..MaxEvents + 1 : CallGetEventByID(id)
    \/ CallGetAllEvents
    \/ \E e \in EventsById, userId \in UserIdInputs : CallEventRegister(e, userId)
    \/ \E e \in EventsById, userId \in UserIdInputs : CallEventUnregister(e, userId)

ModelSpec == ModelInit /\ [][ModelNext]_vars

\* ------------------------------------------------- listing the events
\* The events table filled, changed and emptied by one user's events, and
\* listed in between, as TestGetAllEvents does with two events.
ListingUsers == { u \in ModelUsers : u.Email = "a@x.com" /\ u.Password = "p1" }

ListingEvents ==
    { [ID |-> i, Name |-> n, Description |-> "d", Location |-> "l",
       DateTime |-> "t", UserID |-> I64(1)] :
        i \in 0..MaxListed, n \in {"n1", "n2"} }

ListingNext ==
    \/ \E u \in ListingUsers : CallUserSave(u)
    \/ \E e \in ListingEvents : eventSeq < MaxListed /\ EventSaveCalled(e)
    \/ \E e \in ListingEvents : CallEventUpdate(e)
    \/ \E e \in ListingEvents : CallEventDelete(e)
    \/ CallGetAllEvents

ListingSpec == ModelInit /\ [][ListingNext]_vars

\* ------------------------------------------------- the life of one token
\* Tokens given to ValidateToken that GenerateToken did not make.
OtherTokens(t) ==
    ForgedTokens(t)
    \cup { Token(a, secretKey, TokenEmail, "number", I64(1), TRUE, t + TokenTTL) :
             a \in {"HS384", "none", "RS256", "ES256", "unknown"} }
    \cup { Token("HS256", secretKey, TokenEmail, "string", I64(1), TRUE, t + TokenTTL),
           Token("HS256", secretKey, TokenEmail, "number", I64(1), FALSE, 0),
           Token("HS256", "otherKey", TokenEmail, "absent", I64(0), TRUE, t + TokenTTL),
           Token("HS256", secretKey, TokenEmail, "absent", I64(0), TRUE, t) }

\* GenerateToken(email, userId) at the current time.
Issue(email, userId) ==
    /\ issued' = [origin |-> "issued", email |-> email, userId |-> userId,
                  at |-> now, token |-> GenerateToken(email, userId, now)]
    /\ validated' = NotValidated
    /\ UNCHANGED <<store, http, now, inflight, call>>

\* A token from elsewhere is presented.
Forge(token) ==
    /\ issued' = [origin |-> "forged", email |-> "", userId |-> I64(0),
                  at |-> now, token |-> token]
    /\ validated' = NotValidated
    /\ UNCHANGED <<store, http, now, inflight, call>>

\* ValidateToken(token) at the current time.
Validate ==
    /\ issued.origin # "none"
    /\ validated' = [done |-> TRUE, at |-> now,
                     result |-> ValidateToken(issued.token, now)]
    /\ UNCHANGED <<store, http, now, issued, inflight, call>>

\* The clock advances.
Tick ==
    /\ now < MaxTime
    /\ now' = now + 1
    /\ UNCHANGED <<store, http, life, inflight, call>>

TokenInit == Init

TokenNext ==
    \/ \E email \in Emails, userId \in Int64Values : Issue(email, userId)
    \/ \E token \in OtherTokens(now) : Forge(token)
    \/ Validate
    \/ Tick

TokenSpec == TokenInit /\ [][TokenNext]_vars

\* ------------------------------------------------------------------ claims
Mutating == {"PUT /events/:id", "DELETE /events/:id"}

\* The step handles a PUT or DELETE /events/:id whose token validates to a
\* user id other than the owner of the event stored under the path's id.
ByNonOwner ==
    /\ req'.route \in Mutating
    /\ ValidateToken(req'.token, now).kind = "ok"
    /\ h'.param.digits
    /\ \E e \in events :
          e.ID = h'.param.val /\ e.UserID # ValidateToken(req'.token, now).userId

\* C1: a PUT or DELETE /events/:id with a valid token of a user who is not
\* the owner of the stored event leaves the events table as it is.
C1_NonOwnerChangesNothing == [][ByNonOwner => events' = events]_vars

C1_Witness ==
    /\ req.route \in Mutating
    /\ h.calls = 1
    /\ h.userId # I64(0)
    /\ \E e \in events : e.ID = h.param.val /\ e.UserID # h.userId
    /\ \E e \in events : e.ID = h.param.val /\ e.Name = "n1"
    /\ resp.status = 401

FailsValidation(token, t) ==
    \/ token.alg \notin {"HS256", "HS384", "HS512"}
    \/ token.key # "superSecretKey"
    \/ (token.hasExp /\ t >= token.exp)
    \/ token.idType # "number"

\* C3: a request to a protected route with an empty Authorization header or
\* a token that fails validation is answered 401, its handler is not called
\* and users, events and registrations are unchanged.
C3_Unauthorized ==
    [][(/\ req'.route \in ProtectedRoutes
        /\ (req'.token = EmptyString \/ FailsValidation(req'.token, now)))
       => /\ resp'.status = 401
          /\ h'.calls = 0
          /\ UNCHANGED <<users, events, registrations>>]_vars

\* C4 as stated: when the token validates, the middleware binds the token's
\* id claim and the handler runs once under that id: every event it creates
\* and every registration it adds or removes carries that id.
C4_HandlerActsAsTokenId ==
    [][(/\ req'.route \in ProtectedRoutes
        /\ ~FailsValidation(req'.token, now))
       => /\ h'.calls = 1
          /\ h'.userId = req'.token.idNum
          /\ \A e \in events' :
                (\A x \in events : x.ID # e.ID) => e.UserID = req'.token.idNum
          /\ \A r \in (DOMAIN registrations' \ DOMAIN registrations)
                      \cup (DOMAIN registrations \ DOMAIN registrations') :
                r.UserID = req'.token.idNum]_vars

\* C5: after a successful POST /events the event of the 201 response is
\* stored and both are owned by the caller id the middleware bound, whatever
\* user_id the body carries.
C5_OwnerIsCaller ==
    (req.route = "POST /events" /\ resp.status = 201)
    => /\ Len(resp.body) = 1
       /\ \E e \in resp.body[1].data :
             /\ e \in events
             /\ e.UserID = h.userId
             /\ \A x \in events : x.ID = e.ID => x = e

C5_Witness ==
    /\ req.route = "POST /events"
    /\ resp.status = 201
    /\ h.body.user_id # h.userId
    /\ h.body.user_id # I64(0)
    /\ \E e \in events : e.UserID = h.userId

\* The token under validation was issued by GenerateToken and validated.
IssuedAndValidated == issued.origin = "issued" /\ validated.done

\* C6 as stated: ValidateToken of the token GenerateToken(email, id) returns,
\* at the time of issue, that id with no error, for every id.
C6_RoundTrip ==
    (IssuedAndValidated /\ validated.at = issued.at)
    => validated.result = Valid(issued.userId)

\* C7: a token issued at t expires at t + 12 hours; it is accepted before
\* that time and rejected with "invalid token" after it, and once rejected
\* it is rejected at every later time.
C7_Expiry ==
    /\ [](issued.origin = "issued" => issued.token.exp = issued.at + 12)
    /\ []((IssuedAndValidated /\ validated.at < issued.at + 12)
            => validated.result.kind = "ok")
    /\ []((IssuedAndValidated /\ validated.at > issued.at + 12)
            => validated.result = InvalidToken)
    /\ [][(/\ IssuedAndValidated
           /\ validated.result = InvalidToken
           /\ issued' = issued
           /\ validated'.done)
          => validated'.result = InvalidToken]_vars

C7_Witness ==
    /\ IssuedAndValidated
    /\ validated.at > issued.at + 12
    /\ validated.result = InvalidToken

\* C8: ValidateToken returns "invalid token", and no user id, for every
\* token whose algorithm is not HS256, HS384 or HS512.
C8_OnlyHMAC ==
    (validated.done /\ issued.token.alg \notin {"HS256", "HS384", "HS512"})
    => validated.result = InvalidToken

C8_Witness ==
    /\ validated.done
    /\ issued.token.alg = "none"
    /\ issued.token.idType = "number"
    /\ validated.result = InvalidToken

\* C9 as stated: every token that fails validation makes ValidateToken
\* return the error "invalid token": no other error, no panic, no user id.
C9_OneError ==
    (validated.done /\ FailsValidation(issued.token, validated.at))
    => validated.result = InvalidToken

StoredEmails == { u.Email : u \in users }

\* The step handles a POST /signup with a non-empty email and password.
SignupOf(email, password) ==
    /\ req'.route = "POST /signup"
    /\ h'.body = [malformed |-> FALSE, email |-> email, password |-> password]

\* C10: User.Save with a non-empty password and a non-empty email that is
\* not stored succeeds and gives the user a positive id no other stored user
\* has; with a stored email it fails, stores nothing, and POST /signup answers
\* 500 "User could not be saved".
C10_SaveUniqueEmail ==
    [][\A email \in Emails, password \in Passwords :
          SignupOf(email, password) =>
             IF email \notin StoredEmails
             THEN /\ resp'.status = 201
                  /\ \E u \in users' :
                        /\ users' = users \cup {u}
                        /\ u.Email = email
                        /\ u.ID.hi = 0 /\ u.ID.lo > 0
                        /\ \A v \in users : v.ID # u.ID
             ELSE /\ resp' = JSON(Fresh, 500, Obj("error", "User could not be saved"))
                  /\ users' = users]_vars

C10_Witness ==
    /\ req.route = "POST /signup"
    /\ resp.status = 500
    /\ h.body.email \in StoredEmails
    /\ h.body.password # ""
    /\ Cardinality(users) = 2

\* The step is the INSERT of a signup that runs beside other requests.
SignupInsertOf(slot) ==
    /\ inflight[slot].pc = "exec"
    /\ inflight[slot].route = "POST /signup"
    /\ inflight'[slot] = Idle

\* C11: whatever the interleaving of concurrent signups, no two stored users
\* share an email; a signup succeeds only if no stored user had its email the
\* moment it inserts, so of the signups in flight with one email at most one
\* succeeds.
C11_ConcurrentSignups ==
    /\ [](\A u, v \in users : u.Email = v.Email => u = v)
    /\ [][\A slot \in Slots :
            SignupInsertOf(slot) =>
               IF inflight[slot].user.Email \in StoredEmails
               THEN resp'.status = 500 /\ users' = users
               ELSE /\ resp'.status = 201
                    /\ \A other \in Slots :
                          (/\ other # slot
                           /\ inflight'[other].pc = "exec"
                           /\ inflight'[other].route = "POST /signup"
                           /\ inflight'[other].user.Email = inflight[slot].user.Email)
                          => inflight'[other].user.Email \in { u.Email : u \in users' }]_vars

\* Of two signups in flight with one email, one has inserted and the other
\* has failed.
C11_Witness ==
    /\ req.route = "POST /signup"
    /\ resp = JSON(Fresh, 500, Obj("error", "User could not be saved"))
    /\ h.body.email \in StoredEmails
    /\ Cardinality(users) = 1
    /\ userSeq = 1
    /\ \E slot \in Slots :
          /\ inflight[slot].pc = "exec"
          /\ inflight[slot].route = "POST /signup"
          /\ inflight[slot].user.Email = h.body.email

LoginOf(email, password) ==
    /\ req'.route = "POST /login"
    /\ h'.body = [malformed |-> FALSE, email |-> email, password |-> password]

\* The user POST /login binds from that body.
LoginUser(email, password) == [ID |-> I64(0), Email |-> email, Password |-> password]

\* C13: for an email that is not stored and for a stored email with a wrong
\* password alike, ValidateCredentials returns the error "invalid
\* credentials" and POST /login answers 401 with the one body
\* {error: "Invalid credentials"}.
C13_SameAnswer ==
    [][\A email \in Emails, password \in Passwords :
          (/\ LoginOf(email, password)
           /\ \/ email \notin StoredEmails
              \/ \E r \in users : r.Email = email
                                   /\ ~CheckPasswordHash(password, r.Password))
          => /\ UserValidateCredentials(LoginUser(email, password), users).err
                   = "invalid credentials"
             /\ resp' = JSON(Fresh, 401, Obj("error", "Invalid credentials"))]_vars

C13_Witness ==
    /\ req.route = "POST /login"
    /\ h.body.malformed = FALSE
    /\ h.body.email \in StoredEmails
    /\ h.body.password # ""
    /\ \E r \in users : r.Email = h.body.email
                         /\ ~CheckPasswordHash(h.body.password, r.Password)
    /\ "b@x.com" \notin StoredEmails
    /\ resp = JSON(Fresh, 401, Obj("error", "Invalid credentials"))

\* C14 as stated: the token of a successful POST /login validates to the
\* stored, non-zero id of the user whose email and password were presented.
C14_LoginTokenCarriesId ==
    (req.route = "POST /login" /\ resp.status = 200)
    => /\ Len(resp.body) = 1
       /\ \E token \in resp.body[1].data, u \in users :
             /\ u.Email = h.body.email
             /\ u.ID # I64(0)
             /\ ValidateToken(token, now) = Valid(u.ID)

\* The password a stored user signed up with: the one its stored hash is
\* the hasher's output for.
SignedUpWith(r) == { p \in Passwords : HashPassword(p).hash = r.Password }

\* C15: a successful signup with (e, p) stores, for e, the hasher's output
\* for p; stored users stay as they are; and in every state a login with
\* (e, p) is answered 200 and a login with (e, p2), p2 other than p, is not.
C15_SignupThenLogin ==
    /\ [][\A email \in Emails, password \in Passwords :
             (SignupOf(email, password) /\ resp'.status = 201)
             => \E u \in users' \ users :
                   /\ u.Email = email
                   /\ HashPassword(password).err = FALSE
                   /\ u.Password = HashPassword(password).hash]_vars
    /\ [][users \subseteq users']_vars
    /\ [](\A r \in users : Cardinality(SignedUpWith(r)) = 1)
    /\ [][\A r \in users, password \in Passwords :
             LoginOf(r.Email, password)
             => (resp'.status = 200 <=> password \in SignedUpWith(r))]_vars

C15_Witness ==
    /\ req.route = "POST /login"
    /\ resp.status # 200
    /\ h.body.malformed = FALSE
    /\ \E r \in users :
          /\ r.Email = h.body.email
          /\ SignedUpWith(r) = {"p1"}
          /\ h.body.password = "p2"

\* The owner id of the receiver references no stored user.
BadOwner == ~UserExists(users, call'.event.UserID)

\* C16 as stated: every stored event is owned by a stored user, and
\* Event.Save and Event.Update on a receiver whose owner id references no
\* stored user return an error and leave the events table as it is.
C16_OwnerIsStoredUser ==
    /\ [](\A e \in events : UserExists(users, e.UserID))
    /\ [][(call'.op \in {"Event.Save", "Event.Update"} /\ BadOwner)
          => (call'.err # "" /\ events' = events)]_vars

\* C16, amended: every stored event is owned by a stored user; Event.Save
\* with such an owner id, and Event.Update of a stored event with such an
\* owner id, return an error and leave the events table as it is;
\* Event.Update of an id that is not stored returns no error and changes
\* nothing.
C16_OwnerIsStoredUserOfStoredEvent ==
    /\ [](\A e \in events : UserExists(users, e.UserID))
    /\ [][(call'.op = "Event.Save" /\ BadOwner)
          => (call'.err # "" /\ events' = events)]_vars
    /\ [][(call'.op = "Event.Update" /\ BadOwner
                                     /\ EventExists(events, call'.event.ID))
          => (call'.err # "" /\ events' = events)]_vars
    /\ [][(call'.op = "Event.Update" /\ ~EventExists(events, call'.event.ID))
          => (call'.err = "" /\ events' = events)]_vars

C16_Witness ==
    /\ call.op = "Event.Update"
    /\ call.err # ""
    /\ EventExists(events, call.event.ID)
    /\ call.event.UserID # I64(0)
    /\ ~UserExists(users, call.event.UserID)

\* The step is the INSERT or DELETE of a registration request that runs
\* beside other requests.
RegistrationWriteOf(slot, route) ==
    /\ inflight[slot].pc = "write"
    /\ inflight[slot].route = route
    /\ inflight'[slot] = Idle

\* The pair that request is about.
PairOf(slot) ==
    [EventID |-> inflight[slot].event.ID, UserID |-> inflight[slot].userId]

\* What POST /events/:id/register answers a caller whose id is not stored,
\* and what it answers for an event that is not stored.
AnswerToUnknownUser(slot) == registerEvent(I64(0), inflight[slot].param, NoBody, St).w
AnswerToUnknownEvent(slot) ==
    registerEvent(inflight[slot].userId, Num(MaxEvents + 1), NoBody, St).w

\* The first registration of a pair is answered 201 and stored.
FirstRegistrationSucceeds(slot) ==
    (/\ PairOf(slot) \notin DOMAIN registrations
     /\ EventExists(events, inflight[slot].event.ID)
     /\ UserExists(users, inflight[slot].userId))
    => /\ resp'.status = 201
       /\ PairOf(slot) \in DOMAIN registrations'

C18_OneRowPerPair == \A pair \in DOMAIN registrations : registrations[pair] <= 1

\* Two users hold a registration for one event.
C18_Witness ==
    \E p, q \in DOMAIN registrations :
       /\ p.EventID = q.EventID
       /\ p.UserID # q.UserID
       /\ registrations[p] = 1
       /\ registrations[q] = 1

\* C19: unregistering a pair that is not registered, for an event that is
\* stored, is answered 200 and leaves registrations, events and users as
\* they are.
C19_UnregisterNoOp ==
    [][\A slot \in Slots :
          (/\ RegistrationWriteOf(slot, "DELETE /events/:id/register")
           /\ EventExists(events, inflight[slot].event.ID)
           /\ PairOf(slot) \notin DOMAIN registrations)
          => /\ resp' = JSON(Fresh, 200,
                             Obj("message", "Event unregistered successfully"))
             /\ UNCHANGED <<registrations, events, users>>]_vars

\* A caller who was never registered has unregistered while another user
\* holds a registration for the event.
C19_Witness ==
    /\ req.route = "DELETE /events/:id/register"
    /\ resp.status = 200
    /\ h.param.digits
    /\ EventExists(events, h.param.val)
    /\ ~UserExists(users, h.userId)
    /\ \E r \in DOMAIN registrations : r.EventID = h.param.val

\* C20 as stated: Event.Delete of an id that is not stored returns no error
\* and leaves the events table as it is; Event.Delete of a stored id
\* removes that event and no other, and GetEventByID of the id then fails.
C20_DeleteRemoves ==
    [][call'.op = "Event.Delete"
       => /\ call'.err = ""
          /\ events' = { e \in events : e.ID # call'.event.ID }
          /\ GetEventByID(call'.event.ID, events').err]_vars

\* The id in the path of the request just handled, and whether an event with
\* that id was stored when it arrived.
PathId == ParseInt(h'.param).val
OnMissingEvent ==
    /\ h'.calls = 1
    /\ ~ParseInt(h'.param).err
    /\ GetEventByID(PathId, events).err

\* C21: PUT /events/:id and DELETE /events/:id by an authenticated caller for
\* an id with no stored event both answer an error response, the same one,
\* and change nothing.
C21_MissingEventRefused ==
    [][(req'.route \in Mutating /\ OnMissingEvent)
       => /\ resp'.status >= 400
          /\ resp' = updateEvents(h'.userId, h'.param, h'.body, St).w
          /\ resp' = deleteEvent(h'.userId, h'.param, h'.body, St).w
          /\ store' = store]_vars

\* C22: GET /events/:id answers 200 with the stored event exactly when an
\* event with that id is stored, and 404 "Event not found" for an id that
\* was never created or has been deleted; it changes nothing.
C22_GetByIdFoundOrNotFound ==
    [][(req'.route = "GET /events/:id" /\ ~ParseInt(h'.param).err)
       => /\ \A e \in events :
               e.ID = PathId => resp' = JSON(Fresh, 200, Data("event", e))
          /\ (\A e \in events : e.ID # PathId)
               => resp' = JSON(Fresh, 404, Obj("error", "Event not found"))
          /\ store' = store]_vars

\* GET /events/1 answered 404 after event 1 was created and deleted.
C22_Witness ==
    /\ req.route = "GET /events/:id"
    /\ h.param = Num(1)
    /\ eventSeq = 1
    /\ events = {}
    /\ resp = JSON(Fresh, 404, Obj("error", "Event not found"))

\* The messages the handlers write as constants in their error responses.
FixedMessages ==
    {"Invalid user data", "User could not be saved", "Invalid credentials",
     "Invalid event ID", "Invalid event data", "Event not found", "Unauthorized",
     "Event could not be created", "Event could not be updated",
     "Event could not be deleted", "Event could not be registered",
     "Event could not be unregistered"}

\* C23: every error response carries messages from a fixed set of constant
\* strings, never the text of an error of the store.
C23_FixedErrorMessages ==
    resp.status >= 400
       => \A i \in DOMAIN resp.body :
             resp.body[i].key = "error"
                => /\ resp.body[i].text \in FixedMessages
                   /\ resp.body[i].text \notin StoreFaults

\* C24: whether a request to a protected route passes the middleware, and as
\* which user, is a function of its token and the clock alone, whatever the
\* users, events and registrations tables hold; a token naming a user id the
\* users table does not hold passes.
C24_StatelessValidation ==
    [][req'.route \in ProtectedRoutes
       => /\ h'.calls = 1
               <=> (req'.token # EmptyString
                    /\ ValidateToken(req'.token, now).kind = "ok")
          /\ h'.calls = 1 => h'.userId = ValidateToken(req'.token, now).userId]_vars

\* A handler ran for a token whose user id is in no row of a users table
\* that holds a user.
C24_Witness ==
    /\ req.route \in ProtectedRoutes
    /\ h.calls = 1
    /\ users # {}
    /\ \A u \in users : u.ID # h.userId
    /\ ValidateToken(req.token, now).kind = "ok"

\* The request just handled came from the owner of the stored event its path
\* names.
ByOwner ==
    /\ h'.calls = 1
    /\ ~ParseInt(h'.param).err
    /\ \E e \in events : e.ID = PathId /\ e.UserID = h'.userId

\* C25: a PUT /events/:id by the event's owner whose body fails validation is
\* answered with the 400 response alone and leaves the events table as it was.
C25_InvalidBodyNotApplied ==
    [][(req'.route = "PUT /events/:id" /\ ByOwner /\ ShouldBindEvent(h'.body).err)
       => /\ resp' = JSON(Fresh, 400, Obj("error", "Invalid event data"))
          /\ events' = events]_vars

\* The request in the slot applies its update or delete in this step.
Applies(slot) ==
    /\ inflight[slot].pc = "apply"
    /\ inflight'[slot].pc = "idle"

\* C26: whenever a request applies its update or delete, the event is still
\* the row its ownership check loaded, no other request having written it in
\* between, and the caller is that row's owner.
C26_CheckAndMutationAtomic ==
    [][\A slot \in Slots :
          Applies(slot)
             => /\ inflight[slot].event \in events
                /\ \A e \in events :
                      e.ID = inflight[slot].event.ID => e.UserID = inflight[slot].userId]_vars

\* C27: each registration's event id names a stored event and its user id a
\* stored user; a DELETE /events/:id of an event with registrations leaves
\* none of them behind without their event.
C27_RegistrationsReferToRows ==
    \A r \in DOMAIN registrations :
       /\ EventExists(events, r.EventID)
       /\ UserExists(users, r.UserID)

\* The owner's DELETE of an event that has a registration was refused.
C27_Witness ==
    /\ req.route = "DELETE /events/:id"
    /\ resp = JSON(Fresh, 500, Obj("error", "Event could not be deleted"))
    /\ \E e \in events :
          /\ e.ID = ParseInt(h.param).val
          /\ e.UserID = h.userId
          /\ \E r \in DOMAIN registrations : r.EventID = e.ID

\* The pair a registration request names: the id in its path and the user
\* id its token was issued for.
CallerPair(slot) ==
    [EventID |-> ParseInt(inflight[slot].param).val,
     UserID |-> inflight[slot].token.idNum]

\* The rows of every pair but the given one are the same before and after.
OtherPairsKept(pair) ==
    \A r \in (DOMAIN registrations \cup DOMAIN registrations') \ {pair} :
       /\ r \in DOMAIN registrations
       /\ r \in DOMAIN registrations'
       /\ registrations'[r] = registrations[r]

\* C28: a register or unregister request touches the registration of its own
\* pair only, every other registration staying as it was; a register answered
\* 201 leaves the pair registered and an unregister answered 200 leaves no
\* registration for it; no other step writes a registration.
C28_OnlyOwnPair ==
    [][/\ \A slot \in Slots, route \in RegistrationRoutes :
             RegistrationWriteOf(slot, route)
                => /\ OtherPairsKept(CallerPair(slot))
                   /\ (route = "POST /events/:id/register" /\ resp'.status = 201)
                         => CallerPair(slot) \in DOMAIN registrations'
                   /\ (route = "DELETE /events/:id/register" /\ resp'.status = 200)
                         => CallerPair(slot) \notin DOMAIN registrations'
       /\ (\A slot \in Slots, route \in RegistrationRoutes :
              ~RegistrationWriteOf(slot, route))
             => registrations' = registrations]_vars

\* A stored user has unregistered from an event for which another user's
\* registration is still there.
C28_Witness ==
    /\ req.route = "DELETE /events/:id/register"
    /\ resp.status = 200
    /\ h.param.digits
    /\ UserExists(users, h.userId)
    /\ [EventID |-> h.param.val, UserID |-> h.userId] \notin DOMAIN registrations
    /\ \E r \in DOMAIN registrations : r.EventID = h.param.val /\ r.UserID # h.userId

\* C29: after a PUT /events/:id of the owner that is answered 200, the event
\* is still owned by the caller, whatever user_id the body carries.
C29_UpdateKeepsOwner ==
    [][(req'.route = "PUT /events/:id" /\ ByOwner /\ resp'.status = 200)
       => \E e \in events' : e.ID = PathId /\ e.UserID = h'.userId]_vars

\* The events a call of GetAllEvents returned.
Returned == { call'.rows[i] : i \in DOMAIN call'.rows }

\* C30: GetAllEvents returns, without error, the events stored at that
\* moment and no other, each once; on an empty table the empty sequence.
C30_GetAllReturnsStored ==
    [][call'.op = "GetAllEvents"
       => /\ call'.err = ""
          /\ Returned = events
          /\ Len(call'.rows) = Cardinality(events)
          /\ events = {} => call'.rows = <<>>]_vars

\* Two stored events were listed, one of them under the name n2.
C30_Witness ==
    /\ call.op = "GetAllEvents"
    /\ Len(call.rows) = 2
    /\ call.rows[1] # call.rows[2]
    /\ \E i \in 1..2 : call.rows[i].Name = "n2"
    /\ { call.rows[i] : i \in 1..2 } = events

====
